---- MODULE Spec2Model ----
(***************************************************************************)
(* Model of reporters.go: the Reporter interface and its two               *)
(* implementations, TextReporter (summary statistics) and                  *)
(* GraphicalReporter (responses kept sorted by timestamp in a linked list).*)
(*                                                                         *)
(* A behaviour follows one Reporter value from its constructor through any *)
(* number of Add and Report calls.  The two implementations share no state,*)
(* so a behaviour holds one of them, chosen in Init (variable kind).       *)
(*                                                                         *)
(* uint64 / time.Duration additions are modelled on the naturals: with the *)
(* inputs below every total stays under 2^6, so the 64-bit wrap-around is  *)
(* out of reach of every behaviour of the model.                           *)
(***************************************************************************)
EXTENDS Integers, Sequences, FiniteSets, TLC

VARIABLES
    kind,       \* which Reporter implementation this value is
    hint,       \* the n passed to NewTextReporter (0 for a GraphicalReporter)
    responses,  \* r.responses: the slice (text) or the list front to back (graphical)
    added,      \* the arguments of the Add calls so far, in call order
    report,     \* the outcome of the last Report call
    running,    \* the aggregates of the summary aggregator that keeps no events
    sync,       \* how the callers of Add are serialised: "mutex" or "none"
    holder,     \* the caller inside its Add under the mutex, 0 when none is
    calls       \* per caller: where its Add call stands, line by line

vars == <<kind, hint, responses, added, report, running, sync, holder, calls>>

----------------------------------------------------------------------------
(* Bounds of the model *)

MaxHint == 1
MaxTextAdds == 3
MaxGraphAdds == 4
MaxTime == 3
MaxStepAdds == 3

----------------------------------------------------------------------------
(* *Response values *)

\* The nil pointer: make([]*Response, n) fills the slice with n of them.
Nil == [id |-> 0]

IsNil(res) == res.id = 0

\* No error (res.err == nil).
NoErr == "<nil>"

\* The fields of a Response that reporters.go reads.  id stands for the
\* pointer: every Add call is handed a freshly allocated Response.
Response(id, code, timing, bytesOut, bytesIn, timestamp, err) ==
    [id |-> id, code |-> code, timing |-> timing, bytesOut |-> bytesOut,
     bytesIn |-> bytesIn, timestamp |-> timestamp, err |-> err]

\* Inputs fed to a TextReporter: status codes on both sides of the [200,300)
\* boundaries, a response without a code, repeated and distinct error texts,
\* an error carried together with a 2xx code.
TextInputs ==
    { <<200, 1, 1, 2, NoErr>>,
      <<299, 2, 0, 1, NoErr>>,
      <<199, 1, 2, 0, NoErr>>,
      <<300, 3, 1, 1, NoErr>>,
      <<0,   2, 0, 0, "timeout">>,
      <<0,   1, 1, 0, "refused">>,
      <<200, 2, 2, 3, "timeout">> }

\* Inputs fed to a GraphicalReporter: only the timestamp is read.
GraphInputs == { <<200, 1, 1, 1, t, NoErr>> : t \in 1..MaxTime }

----------------------------------------------------------------------------
(* TextReporter *)

\* make([]*Response, n): a slice of LENGTH n, every entry nil.
NewTextReporter(n) == [i \in 1..n |-> Nil]

\* r.responses = append(r.responses, res)
TextReporterAdd(rs, res) == Append(rs, res)

\* histogram[res.code]++ on a map: a missing key reads as zero.
HistogramIncr(h, code) ==
    IF code \in DOMAIN h THEN [h EXCEPT ![code] = @ + 1]
                         ELSE h @@ (code :> 1)

\* res.code >= 200 && res.code < 300
IsSuccess(code) == code >= 200 /\ code < 300

\* if res.err != nil { errors[res.err.Error()] = struct{}{} }
ErrorsInsert(errors, err) == IF err # NoErr THEN errors \cup {err} ELSE errors

\* A plausible slip: total = x, the sum overwritten instead of added to.
Accumulate_Assigned(total, x) == x

\* total += x
Accumulate(total, x) == total + x

\* The locals of Report before the loop.
ReportLocals ==
    [panicked |-> FALSE, totalTime |-> 0, totalBytesOut |-> 0,
     totalBytesIn |-> 0, totalSuccess |-> 0,
     histogram |-> <<>>, errors |-> {}]

\* One iteration of the loop over r.responses.
ReportLoopBody(acc, res) ==
    [acc EXCEPT !.histogram     = HistogramIncr(@, res.code),
                !.totalTime     = Accumulate(@, res.timing),
                !.totalBytesOut = Accumulate(@, res.bytesOut),
                !.totalBytesIn  = Accumulate(@, res.bytesIn),
                !.totalSuccess  = IF IsSuccess(res.code) THEN @ + 1 ELSE @,
                !.errors        = ErrorsInsert(@, res.err)]

\* for _, res := range r.responses { ... }: reading res.code of a nil res
\* is a nil pointer dereference, which panics and ends Report.
RECURSIVE ReportLoop(_, _, _)
ReportLoop(rs, i, acc) ==
    IF i > Len(rs) THEN acc
    ELSE IF IsNil(rs[i]) THEN [acc EXCEPT !.panicked = TRUE]
    ELSE ReportLoop(rs, i + 1, ReportLoopBody(acc, rs[i]))

\* float64(total) / float64(totalRequests), kept as a fraction in lowest
\* terms; 0/0 is NaN (no panic: the operands are floats).
RECURSIVE GCD(_, _)
GCD(a, b) == IF b = 0 THEN a ELSE GCD(b, a % b)

FloatDiv(total, n) ==
    IF n = 0 THEN [nan |-> TRUE, num |-> 0, den |-> 0]
    ELSE [nan |-> FALSE, num |-> total \div GCD(total, n), den |-> n \div GCD(total, n)]

\* What time.Duration(f) yields for a NaN f: the conversion succeeds with an
\* implementation-dependent value (the most negative int64 on amd64, 0 on
\* arm64).  The value is a fixed property of the build, the same in every
\* call, and is kept as this one symbol.
NaNConversions == {"nan-to-int64"}

\* time.Duration(float64(totalTime) / float64(totalRequests)): truncation.
DurationOfQuotient(total, n, nanConv) ==
    IF n = 0 THEN [conv |-> nanConv, value |-> 0]
    ELSE [conv |-> "exact", value |-> total \div n]

\* The values Report has computed when the loop and the four divisions are done.
ReportValues(rs, acc, nanConv) ==
    [totalRequests |-> Len(rs),
     totalTime     |-> acc.totalTime,
     totalBytesOut |-> acc.totalBytesOut,
     totalBytesIn  |-> acc.totalBytesIn,
     totalSuccess  |-> acc.totalSuccess,
     histogram     |-> acc.histogram,
     errors        |-> acc.errors,
     avgTime       |-> DurationOfQuotient(acc.totalTime, Len(rs), nanConv),
     avgBytesOut   |-> FloatDiv(acc.totalBytesOut, Len(rs)),
     avgBytesIn    |-> FloatDiv(acc.totalBytesIn, Len(rs)),
     avgSuccess    |-> FloatDiv(acc.totalSuccess, Len(rs))]

\* The shape of the values when Report computed none.
NoValues == ReportValues(<<>>, ReportLocals, "nan-to-int64")

\* One fmt.Sprintf / fmt.Sprintln result: the format and the values put in it.
Line(format, args) == [format |-> format, args |-> args]

\* The orders in which `range` may walk a map with key set S: every one of them.
RangeOrders(S) ==
    { o \in [1..Cardinality(S) -> S] : \A i, j \in DOMAIN o : i # j => o[i] # o[j] }

\* buf as Report builds it; codeOrder and errOrder are the orders the two map
\* ranges happened to take.
TextRender(v, codeOrder, errOrder) ==
    << Line("Results: ", <<>>),
       Line("Time      (avg): %s", <<v.avgTime>>),
       Line("Bytes out (avg): %f", <<v.avgBytesOut>>),
       Line("Bytes in  (avg): %f", <<v.avgBytesIn>>),
       Line("Success ratio:   %f", <<v.avgSuccess>>),
       Line("Requests:        %d", <<v.totalRequests>>),
       Line("Status codes histogram:", <<>>) >>
    \o [i \in 1..Len(codeOrder) |->
            Line("%3d %d", <<codeOrder[i], v.histogram[codeOrder[i]]>>)]
    \o << Line("Error set:", <<>>) >>
    \o [i \in 1..Len(errOrder) |-> Line("%s", <<errOrder[i]>>)]

\* What out.Write may return as its error: nil, or the sink's failure.
SinkErrors == {NoErr, "EIO"}

\* No Report call has been made (since the last Add).
NoReport ==
    [status |-> "none", again |-> FALSE, err |-> NoErr, writes |-> 0,
     values |-> NoValues, buf |-> <<>>]

\* Report ended in a panic: it returned nothing and wrote nothing.
PanicReport ==
    [status |-> "panic", again |-> FALSE, err |-> NoErr, writes |-> 0,
     values |-> NoValues, buf |-> <<>>]

\* Report returned err after its one out.Write(buf).
ReturnedReport(v, buf, err) ==
    [status |-> "returned", again |-> FALSE, err |-> err, writes |-> 1,
     values |-> v, buf |-> buf]

\* Lines 34-58 of Report on the slice rs: it panics in the loop, or reaches
\* the rendering with these values (one per NaN conversion when rs is empty).
ReportComputed(rs) ==
    LET acc == ReportLoop(rs, 1, ReportLocals) IN
    IF acc.panicked THEN { [panicked |-> TRUE, values |-> NoValues] }
    ELSE { [panicked |-> FALSE, values |-> ReportValues(rs, acc, nanConv)] :
             nanConv \in (IF Len(rs) = 0 THEN NaNConversions ELSE {"exact"}) }

\* The outcomes TextReporter.Report can have on the slice rs.
TextReporterReport(rs) ==
    UNION { IF c.panicked THEN {PanicReport}
            ELSE { ReturnedReport(c.values, TextRender(c.values, co, eo), err) :
                     co \in RangeOrders(DOMAIN c.values.histogram),
                     eo \in RangeOrders(c.values.errors),
                     err \in SinkErrors } :
            c \in ReportComputed(rs) }

----------------------------------------------------------------------------
(* The summary aggregator that retains only running aggregates, as the
   specification describes its state: updated on each Add, read by Report. *)

\* Created empty.
RunningInit ==
    [count |-> 0, totalTime |-> 0, totalBytesOut |-> 0, totalBytesIn |-> 0,
     totalSuccess |-> 0, histogram |-> <<>>, errors |-> {}]

\* Add folds the event into the aggregates.
RunningAdd(agg, res) ==
    [count         |-> agg.count + 1,
     totalTime     |-> agg.totalTime + res.timing,
     totalBytesOut |-> agg.totalBytesOut + res.bytesOut,
     totalBytesIn  |-> agg.totalBytesIn + res.bytesIn,
     totalSuccess  |-> agg.totalSuccess
                         + (IF res.code >= 200 /\ res.code < 300 THEN 1 ELSE 0),
     histogram     |-> [c \in DOMAIN agg.histogram \cup {res.code} |->
                           (IF c \in DOMAIN agg.histogram THEN agg.histogram[c] ELSE 0)
                             + (IF c = res.code THEN 1 ELSE 0)],
     errors        |-> IF res.err = NoErr THEN agg.errors ELSE agg.errors \cup {res.err}]

\* Report derives the averages from the totals and the count.
RunningValues(agg) ==
    [totalRequests |-> agg.count,
     totalTime     |-> agg.totalTime,
     totalBytesOut |-> agg.totalBytesOut,
     totalBytesIn  |-> agg.totalBytesIn,
     totalSuccess  |-> agg.totalSuccess,
     histogram     |-> agg.histogram,
     errors        |-> agg.errors,
     avgTime       |-> DurationOfQuotient(agg.totalTime, agg.count, "nan-to-int64"),
     avgBytesOut   |-> FloatDiv(agg.totalBytesOut, agg.count),
     avgBytesIn    |-> FloatDiv(agg.totalBytesIn, agg.count),
     avgSuccess    |-> FloatDiv(agg.totalSuccess, agg.count)]

----------------------------------------------------------------------------
(* GraphicalReporter *)

\* list.New()
NewGraphicalReporter == <<>>

\* time.Time.Before / time.Time.After: strict.
Before(t, u) == t < u
After(t, u) == t > u

\* A plausible slip: the new element linked in at the wrong end.
PushFront_AtBack(l, res) == l \o <<res>>

PushFront(l, res) == <<res>> \o l
PushBack(l, res) == l \o <<res>>
\* A plausible slip: e.Value = res, the element overwritten instead of a new
\* one linked in before it.
InsertBefore_Overwriting(l, i, res) ==
    SubSeq(l, 1, i - 1) \o <<res>> \o SubSeq(l, i + 1, Len(l))

\* InsertBefore(res, e), e the i-th element
InsertBefore(l, i, res) == SubSeq(l, 1, i - 1) \o <<res>> \o SubSeq(l, i, Len(l))

\* A plausible slip: InsertAfter(res, e) where InsertBefore was meant.
RECURSIVE AddScan_InsertAfter(_, _, _)
AddScan_InsertAfter(l, i, res) ==
    IF i > Len(l) THEN l
    ELSE IF Before(res.timestamp, l[i].timestamp) THEN InsertBefore(l, i + 1, res)
    ELSE AddScan_InsertAfter(l, i + 1, res)

\* for e := Front(); e != nil; e = e.Next(): insert before the first element
\* strictly after res; when the loop runs off the end, Add returns having
\* inserted nothing.
RECURSIVE AddScan(_, _, _)
AddScan(l, i, res) ==
    IF i > Len(l) THEN l
    ELSE IF Before(res.timestamp, l[i].timestamp) THEN InsertBefore(l, i, res)
    ELSE AddScan(l, i + 1, res)

\* A plausible slip: the "before all others" path copied from the path above
\* it with PushBack left in.
GraphicalReporterAdd_HeadPushedBack(l, res) ==
    IF Len(l) = 0 THEN PushFront(l, res)
    ELSE IF Before(l[Len(l)].timestamp, res.timestamp) THEN PushBack(l, res)
    ELSE IF After(l[1].timestamp, res.timestamp) THEN PushBack(l, res)
    ELSE AddScan(l, 1, res)

\* GraphicalReporter.Add
GraphicalReporterAdd(l, res) ==
    IF Len(l) = 0 THEN PushFront(l, res)
    ELSE IF Before(l[Len(l)].timestamp, res.timestamp) THEN PushBack(l, res)
    ELSE IF After(l[1].timestamp, res.timestamp) THEN PushFront(l, res)
    ELSE AddScan(l, 1, res)

\* buf += fmt.Sprintln(r.timestamp), front to back
GraphRender(l) == [i \in 1..Len(l) |-> Line("%v", <<l[i].timestamp>>)]

\* The outcomes GraphicalReporter.Report can have on the list l.
GraphicalReporterReport(l) ==
    { ReturnedReport(NoValues, GraphRender(l), err) : err \in SinkErrors }

----------------------------------------------------------------------------
(* The callers of Add *)

\* The goroutines that call Add on the one reporter.
Callers == {1, 2}

\* A caller that is not inside Add.
IdleCall == [pc |-> "idle", arg |-> Nil, cursor |-> 0, visited |-> <<>>, cmps |-> 0]

----------------------------------------------------------------------------
(* The state machine *)

\* The outcome o of a Report call, marked (again) when the call directly
\* followed another Report call that returned, with no Add in between.
\* A third Report in a row would repeat the second on the same reporter, so
\* the model follows two in a row and then waits for an Add.
AfterReport(last, o) == [o EXCEPT !.again = (last.status = "returned")]

Init ==
    /\ kind \in {"text", "graphical"}
    /\ hint \in 0..MaxHint
    /\ kind = "graphical" => hint = 0
    /\ responses = IF kind = "text" THEN NewTextReporter(hint) ELSE NewGraphicalReporter
    /\ added = <<>>
    /\ report = NoReport
    /\ running = RunningInit
    /\ sync = "mutex"
    /\ holder = 0
    /\ calls = [c \in Callers |-> IdleCall]

\* r.Add(res) on a TextReporter
TextAdd ==
    /\ kind = "text"
    /\ report.status # "panic"
    /\ Len(added) < MaxTextAdds
    /\ \E in \in TextInputs :
         LET res == Response(Len(added) + 1, in[1], in[2], in[3], in[4], 0, in[5]) IN
         /\ responses' = TextReporterAdd(responses, res)
         /\ added' = Append(added, res)
         /\ running' = RunningAdd(running, res)
    /\ report' = NoReport
    /\ UNCHANGED <<kind, hint, sync, holder, calls>>

\* r.Report(out) on a TextReporter
TextReport ==
    /\ kind = "text"
    /\ report.status # "panic"
    /\ ~report.again
    /\ report' \in { AfterReport(report, o) : o \in TextReporterReport(responses) }
    /\ UNCHANGED <<kind, hint, responses, added, running, sync, holder, calls>>

\* r.Add(res) on a GraphicalReporter
GraphAdd ==
    /\ kind = "graphical"
    /\ Len(added) < MaxGraphAdds
    /\ \E in \in GraphInputs :
         LET res == Response(Len(added) + 1, in[1], in[2], in[3], in[4], in[5], in[6]) IN
         /\ responses' = GraphicalReporterAdd(responses, res)
         /\ added' = Append(added, res)
    /\ report' = NoReport
    /\ UNCHANGED <<kind, hint, running, sync, holder, calls>>

\* A plausible slip: a Report that takes the elements off the list as it
\* renders them.
GraphReport_Draining ==
    /\ kind = "graphical"
    /\ ~report.again
    /\ report' \in { AfterReport(report, o) : o \in GraphicalReporterReport(responses) }
    /\ responses' = <<>>
    /\ UNCHANGED <<kind, hint, added, running, sync, holder, calls>>

\* r.Report(out) on a GraphicalReporter
GraphReport ==
    /\ kind = "graphical"
    /\ ~report.again
    /\ report' \in { AfterReport(report, o) : o \in GraphicalReporterReport(responses) }
    /\ UNCHANGED <<kind, hint, responses, added, running, sync, holder, calls>>

Next == TextAdd \/ TextReport \/ GraphAdd \/ GraphReport

Spec == Init /\ [][Next]_vars

----------------------------------------------------------------------------
(* GraphicalReporter.Add statement by statement, called from two goroutines.

   With sync = "mutex" the callers hold a mutex of their own around each Add
   call; with sync = "none" the calls interleave between statements.  Each
   statement, with the list operation in it, is one step: of the outcomes a
   build can show for the unsynchronised calls, which race on the list, these
   interleavings are the ones every build can show. *)

\* The place in the list l of the element e (its pointer id), 0 when absent.
IndexOf(l, e) ==
    IF \E i \in 1..Len(l) : l[i].id = e
    THEN CHOOSE i \in 1..Len(l) : l[i].id = e
    ELSE 0

\* r.responses.Front(): nil on an empty list.
Front(l) == IF Len(l) = 0 THEN 0 ELSE l[1].id

\* e.Next(): nil after the last element.
NextElement(l, e) ==
    IF IndexOf(l, e) = Len(l) THEN 0 ELSE l[IndexOf(l, e) + 1].id

\* Add returns: the caller is idle again and, under the mutex, unlocks.
Return(c) ==
    /\ calls' = [calls EXCEPT ![c] = IdleCall]
    /\ holder' = 0

\* The caller moves on inside Add.
Goto(c, line, cmps) ==
    /\ calls' = [calls EXCEPT ![c].pc = line, ![c].cmps = cmps]
    /\ UNCHANGED <<responses, holder>>

\* r.Add(res) is called (line 89), the mutex taken first when there is one.
CallAdd(c) ==
    /\ calls[c].pc = "idle"
    /\ Len(added) < MaxStepAdds
    /\ sync = "mutex" => holder = 0
    /\ holder' = IF sync = "mutex" THEN c ELSE 0
    /\ \E in \in GraphInputs :
         LET res == Response(Len(added) + 1, in[1], in[2], in[3], in[4], in[5], in[6]) IN
         /\ calls' = [calls EXCEPT ![c] = [IdleCall EXCEPT !.pc = "line91", !.arg = res]]
         /\ added' = Append(added, res)
    /\ UNCHANGED <<kind, hint, responses, report, running, sync>>

\* if r.responses.Len() == 0 (line 91)
TestEmpty(c) ==
    /\ calls[c].pc = "line91"
    /\ Goto(c, IF Len(responses) = 0 THEN "line92" ELSE "line96", 0)
    /\ UNCHANGED <<kind, hint, added, report, running, sync>>

\* r.responses.PushFront(res); return (lines 92-93)
PushFrontEmpty(c) ==
    /\ calls[c].pc = "line92"
    /\ responses' = PushFront(responses, calls[c].arg)
    /\ Return(c)
    /\ UNCHANGED <<kind, hint, added, report, running, sync>>

\* if last := Back(); last.timestamp.Before(res.timestamp) (line 96)
TestTail(c) ==
    /\ calls[c].pc = "line96"
    /\ Goto(c, IF Before(responses[Len(responses)].timestamp, calls[c].arg.timestamp)
                THEN "line97" ELSE "line101", calls[c].cmps + 1)
    /\ UNCHANGED <<kind, hint, added, report, running, sync>>

\* r.responses.PushBack(res); return (lines 97-98)
PushBackTail(c) ==
    /\ calls[c].pc = "line97"
    /\ responses' = PushBack(responses, calls[c].arg)
    /\ Return(c)
    /\ UNCHANGED <<kind, hint, added, report, running, sync>>

\* if first := Front(); first.timestamp.After(res.timestamp) (line 101);
\* when the test fails the loop starts: e := r.responses.Front() (line 106)
TestHead(c) ==
    /\ calls[c].pc = "line101"
    /\ IF After(responses[1].timestamp, calls[c].arg.timestamp)
       THEN calls' = [calls EXCEPT ![c].pc = "line102", ![c].cmps = @ + 1]
       ELSE calls' = [calls EXCEPT ![c].pc = "line106", ![c].cmps = @ + 1,
                                   ![c].cursor = Front(responses)]
    /\ UNCHANGED <<kind, hint, responses, added, report, running, sync, holder>>

\* r.responses.PushFront(res); return (lines 102-103)
PushFrontHead(c) ==
    /\ calls[c].pc = "line102"
    /\ responses' = PushFront(responses, calls[c].arg)
    /\ Return(c)
    /\ UNCHANGED <<kind, hint, added, report, running, sync>>

\* A plausible slip: the loop written without its e = e.Next().
ScanStep_NoAdvance(c) ==
    /\ calls[c].pc = "line106"
    /\ IF calls[c].cursor = 0
       THEN Return(c) /\ UNCHANGED responses
       ELSE LET needle == responses[IndexOf(responses, calls[c].cursor)] IN
            /\ calls' = [calls EXCEPT
                   ![c].visited = Append(@, calls[c].cursor),
                   ![c].cmps = @ + 1,
                   ![c].pc = IF Before(calls[c].arg.timestamp, needle.timestamp)
                             THEN "line109" ELSE "line106"]
            /\ UNCHANGED <<responses, holder>>
    /\ UNCHANGED <<kind, hint, added, report, running, sync>>

\* One turn of the loop (lines 106-108): e != nil is tested; on nil the
\* loop and Add end; otherwise the element is visited and compared, and the
\* loop goes on to insert before it or steps to e.Next().
ScanStep(c) ==
    /\ calls[c].pc = "line106"
    /\ IF calls[c].cursor = 0
       THEN Return(c) /\ UNCHANGED responses
       ELSE LET needle == responses[IndexOf(responses, calls[c].cursor)] IN
            /\ calls' = [calls EXCEPT
                   ![c].visited = Append(@, calls[c].cursor),
                   ![c].cmps = @ + 1,
                   ![c].pc = IF Before(calls[c].arg.timestamp, needle.timestamp)
                             THEN "line109" ELSE "line106",
                   ![c].cursor = IF Before(calls[c].arg.timestamp, needle.timestamp)
                                 THEN @ ELSE NextElement(responses, @)]
            /\ UNCHANGED <<responses, holder>>
    /\ UNCHANGED <<kind, hint, added, report, running, sync>>

\* r.responses.InsertBefore(res, e); return (lines 109-110)
InsertAtCursor(c) ==
    /\ calls[c].pc = "line109"
    /\ responses' = InsertBefore(responses, IndexOf(responses, calls[c].cursor),
                                 calls[c].arg)
    /\ Return(c)
    /\ UNCHANGED <<kind, hint, added, report, running, sync>>

\* The statements of a call under way.
Proceed(c) ==
    \/ TestEmpty(c) \/ PushFrontEmpty(c) \/ TestTail(c) \/ PushBackTail(c)
    \/ TestHead(c) \/ PushFrontHead(c) \/ ScanStep(c) \/ InsertAtCursor(c)

InitSteps ==
    /\ kind = "graphical"
    /\ hint = 0
    /\ responses = NewGraphicalReporter
    /\ added = <<>>
    /\ report = NoReport
    /\ running = RunningInit
    /\ sync \in {"mutex", "none"}
    /\ holder = 0
    /\ calls = [c \in Callers |-> IdleCall]

NextSteps == \E c \in Callers : CallAdd(c) \/ Proceed(c)

\* A goroutine inside Add keeps running: Add waits for nothing.
FairSteps == \A c \in Callers : WF_vars(Proceed(c))

SpecSteps == InitSteps /\ [][NextSteps]_vars /\ FairSteps

----------------------------------------------------------------------------
(* Vocabulary of the properties *)

\* The timestamps of a sequence of responses, in order.
Timestamps(l) == [i \in 1..Len(l) |-> l[i].timestamp]

\* The timestamps a GraphicalReporter report shows, line by line.
ReportedTimestamps(buf) == [i \in 1..Len(buf) |-> buf[i].args[1]]

NonDecreasing(ts) == \A i \in 1..(Len(ts) - 1) : ts[i] <= ts[i + 1]

PairwiseDistinct(ts) == \A i, j \in 1..Len(ts) : i # j => ts[i] # ts[j]

\* The elements of a sequence.
Range(s) == { s[i] : i \in 1..Len(s) }

\* Reference sort of a set of numbers: its one strictly increasing enumeration.
SortedSeqOf(S) ==
    CHOOSE s \in [1..Cardinality(S) -> S] :
        \A i, j \in 1..Cardinality(S) : i < j => s[i] < s[j]

\* The position of the response with pointer id in l, 0 when it is not there.
PositionOf(l, id) ==
    IF \E i \in 1..Len(l) : l[i].id = id
    THEN CHOOSE i \in 1..Len(l) : l[i].id = id
    ELSE 0

----------------------------------------------------------------------------
(* C1: whatever the arrival order, the list of a GraphicalReporter is sorted
   non-decreasing by timestamp after every Add, and a Report shows the
   timestamps in non-decreasing order. *)
C1_SortedAfterEveryAdd ==
    kind = "graphical" =>
        /\ NonDecreasing(Timestamps(responses))
        /\ report.status = "returned" =>
               NonDecreasing(ReportedTimestamps(report.buf))

\* Arrival order 3, 1, 2 has been added and reported.
C1_Witness ==
    /\ kind = "graphical"
    /\ Timestamps(added) = <<3, 1, 2>>
    /\ report.status = "returned"
    /\ Len(report.buf) = 3

(* C2: Add of a GraphicalReporter accepts every event: after k Add calls the
   list holds exactly the k added events, and Report writes one line per
   added event. *)
C2_EveryAddIsKept ==
    kind = "graphical" =>
        /\ Len(responses) = Len(added)
        /\ Range(responses) = Range(added)
        /\ report.status = "returned" => Len(report.buf) = Len(added)

(* C3: events with equal timestamps are reported in the order they were
   added: of two added events with the same timestamp both are in the list,
   the earlier added one in front. *)
C3_TiesKeepArrivalOrder ==
    kind = "graphical" =>
        \A i, j \in 1..Len(added) :
            (i < j /\ added[i].timestamp = added[j].timestamp) =>
                /\ PositionOf(responses, added[i].id) > 0
                /\ PositionOf(responses, added[j].id) > 0
                /\ PositionOf(responses, added[i].id) < PositionOf(responses, added[j].id)

(* C4: when the added timestamps are pairwise distinct, Report shows exactly
   their ascending sort, whatever the arrival order. *)
C4_ReportIsSortOfInput ==
    (kind = "graphical" /\ PairwiseDistinct(Timestamps(added))) =>
        /\ Timestamps(responses) = SortedSeqOf(Range(Timestamps(added)))
        /\ report.status = "returned" =>
               ReportedTimestamps(report.buf) = SortedSeqOf(Range(Timestamps(added)))

\* Arrival order 3, 1, 2 is reported as 1, 2, 3.
C4_Witness ==
    /\ kind = "graphical"
    /\ Timestamps(added) = <<3, 1, 2>>
    /\ report.status = "returned"
    /\ ReportedTimestamps(report.buf) = <<1, 2, 3>>

----------------------------------------------------------------------------
(* Vocabulary of the TextReporter properties *)

\* Every order in which the events of the sequence s could have been added.
Rearrangements(s) ==
    { [i \in 1..Len(s) |-> s[p[i]]] : p \in Permutations(1..Len(s)) }

\* The slice of a TextReporter built with hint n after the Add calls of s.
RECURSIVE Replay(_, _)
Replay(n, s) ==
    IF s = <<>> THEN NewTextReporter(n)
    ELSE TextReporterAdd(Replay(n, SubSeq(s, 1, Len(s) - 1)), s[Len(s)])

\* How many of the events of s satisfy the test.
CountWhere(s, Test(_)) == Cardinality({ i \in 1..Len(s) : Test(s[i]) })

\* The sum of the counts of a histogram h over the codes in S.
RECURSIVE SumCounts(_, _)
SumCounts(h, S) ==
    IF S = {} THEN 0
    ELSE LET c == CHOOSE x \in S : TRUE IN h[c] + SumCounts(h, S \ {c})

\* The lines of a TextReporter report written with the given format.
LinesOf(buf, format) == SelectSeq(buf, LAMBDA ln : ln.format = format)

\* Report has been called on the TextReporter since its last Add.
TextReported == kind = "text" /\ report.status # "none"

----------------------------------------------------------------------------
(* C5: the values Report derives do not depend on the order of the Add
   calls: for every rearrangement of the added events, Report on the
   reporter fed in that order ends the same way with the same request
   count, totals, averages, success count, histogram and error set. *)
C5_OrderIndependent ==
    TextReported =>
        \A p \in Rearrangements(added) :
            \E c \in ReportComputed(Replay(hint, p)) :
                /\ c.panicked = (report.status = "panic")
                /\ c.values = report.values

\* Three events with different codes, timings and errors, added and reported.
C5_Witness ==
    /\ TextReported
    /\ report.status = "returned"
    /\ Len(added) = 3
    /\ added[1].code = 200 /\ added[2].code = 0 /\ added[3].code = 300
    /\ added[1].timing # added[3].timing

(* C6: after any sequence of Add calls the histogram Report computes maps
   each status code to the number of added events with that code, holds no
   code that was never added, and its counts sum to the request count. *)
C6_HistogramExact ==
    TextReported =>
        /\ report.status = "returned"
        /\ DOMAIN report.values.histogram = { added[i].code : i \in 1..Len(added) }
        /\ \A c \in DOMAIN report.values.histogram :
               report.values.histogram[c] = CountWhere(added, LAMBDA r : r.code = c)
        /\ SumCounts(report.values.histogram, DOMAIN report.values.histogram)
               = report.values.totalRequests

(* C7: the success count Report uses for the success ratio is the number of
   added events whose status code lies in [200,300), out of as many requests
   as events were added. *)
C7_SuccessCount ==
    TextReported =>
        /\ report.status = "returned"
        /\ report.values.totalSuccess
               = CountWhere(added, LAMBDA r : r.code \in 200..299)
        /\ report.values.totalRequests = Len(added)

(* C8: the error set Report computes is exactly the set of distinct error
   messages of the added events that carry an err, and the report shows each
   of them on one line. *)
C8_ErrorSetExact ==
    TextReported =>
        /\ report.status = "returned"
        /\ report.values.errors
               = { added[i].err : i \in { k \in 1..Len(added) : added[k].err # NoErr } }
        /\ Len(LinesOf(report.buf, "%s")) = Cardinality(report.values.errors)
        /\ { ln.args[1] : ln \in Range(LinesOf(report.buf, "%s")) } = report.values.errors

(* C9: a TextReporter is created empty whatever hint n its constructor is
   given and grows by one event per Add: its slice holds exactly the added
   events, and Report counts as many requests as Add calls were made. *)
C9_CreatedEmptyGrowsByOne ==
    kind = "text" =>
        /\ Len(responses) = Len(added)
        /\ \A i \in 1..Len(responses) : responses[i] \in Range(added)
        /\ report.status # "none" =>
               /\ report.status = "returned"
               /\ report.values.totalRequests = Len(added)
               /\ LinesOf(report.buf, "Requests:        %d")
                      = << Line("Requests:        %d", <<Len(added)>>) >>

(* C10: Report on a TextReporter to which no event was added does not crash:
   it returns what the sink's write returned, and renders Requests: 0 with an
   empty histogram and an empty error set. *)
C10_EmptyReportSucceeds ==
    (TextReported /\ added = <<>>) =>
        /\ report.status = "returned"
        /\ report.err \in SinkErrors
        /\ report.values.avgSuccess.nan
        /\ report.values.histogram = <<>>
        /\ report.values.errors = {}
        /\ LinesOf(report.buf, "Requests:        %d")
               = << Line("Requests:        %d", <<0>>) >>
        /\ LinesOf(report.buf, "%3d %d") = <<>>
        /\ LinesOf(report.buf, "%s") = <<>>

----------------------------------------------------------------------------
(* C11: every Report call, on either reporter, makes exactly one write call
   to the sink and returns what that write returned: nil when it succeeded,
   the sink's own error when it failed, and nothing else. *)
C11_OneWriteErrorVerbatim ==
    report.status # "none" =>
        /\ report.status = "returned"
        /\ report.writes = 1
        /\ report.err \in SinkErrors

\* Where the specification says Add puts res in the list l.
StatedPlacement(l, res) ==
    IF Len(l) = 0 THEN <<res>>
    ELSE IF res.timestamp >= l[Len(l)].timestamp THEN l \o <<res>>
    ELSE IF res.timestamp < l[1].timestamp THEN <<res>> \o l
    ELSE LET i == CHOOSE k \in 1..Len(l) :
                      /\ l[k].timestamp > res.timestamp
                      /\ \A j \in 1..(k - 1) : l[j].timestamp <= res.timestamp
         IN SubSeq(l, 1, i - 1) \o <<res>> \o SubSeq(l, i, Len(l))

(* C12: Add of a GraphicalReporter places the event as stated: alone into an
   empty list; as the new tail when its timestamp is greater than or equal to
   the tail's; as the new head when it is strictly less than the head's;
   otherwise immediately before the first element strictly after it. *)
C12_PlacedAsStated ==
    [][ (kind = "graphical" /\ Len(added') = Len(added) + 1) =>
            responses' = StatedPlacement(responses, added'[Len(added')]) ]_vars

(* C13: an event that carries an err is not counted as a success whatever its
   status code: the success count of a report is at most the number of added
   events without err. *)
C13_ErrIsNeverSuccess ==
    (TextReported /\ report.status = "returned") =>
        report.values.totalSuccess <= CountWhere(added, LAMBDA r : r.err = NoErr)

\* Two reports hold the same lines, the lines of the two map ranges (the
\* histogram and the error set) possibly in another order.
SameLinesUpToMapOrder(b1, b2) ==
    /\ Len(b1) = Len(b2)
    /\ \A i \in 1..Len(b1) :
           /\ b1[i].format = b2[i].format
           /\ Cardinality({ j \in 1..Len(b1) :
                              b1[j].format = b1[i].format /\ b1[j].args = b1[i].args })
                = Cardinality({ j \in 1..Len(b2) :
                              b2[j].format = b1[i].format /\ b2[j].args = b1[i].args })

(* C14 as stated: Report leaves the stored events as they were, whether the
   write succeeds or fails, and a Report that directly follows another one
   yields the same content. *)
C14_ReportTwiceSameContent ==
    [][ report'.status # "none" =>
            /\ responses' = responses
            /\ report.status = "returned" =>
                   (report'.status = "returned" /\ report'.buf = report.buf) ]_vars

(* C14 as amended: Report leaves the stored events as they were, whether the
   write succeeds or fails, and a Report that directly follows another one
   computes the same values and yields the same lines, the histogram lines
   and the error-set lines possibly in another order. *)
C14_ReportDoesNotMutate ==
    [][ report'.status # "none" =>
            /\ responses' = responses
            /\ report.status = "returned" =>
                   /\ report'.status = "returned"
                   /\ report'.values = report.values
                   /\ SameLinesUpToMapOrder(report'.buf, report.buf) ]_vars

\* A second Report in a row, its write failing, on a TextReporter that holds
\* events of two status codes.
C14_Witness ==
    /\ kind = "text"
    /\ report.status = "returned"
    /\ report.again
    /\ report.err = "EIO"
    /\ Len(responses) = 2
    /\ Cardinality(DOMAIN report.values.histogram) = 2

\* a is b with some elements left out: same elements, same relative order.
RECURSIVE IsSubsequence(_, _)
IsSubsequence(a, b) ==
    IF a = <<>> THEN TRUE
    ELSE IF b = <<>> THEN FALSE
    ELSE IF Head(a) = Head(b) THEN IsSubsequence(Tail(a), Tail(b))
    ELSE IsSubsequence(a, Tail(b))

(* C15: Add of a GraphicalReporter never removes or reorders stored events:
   the list before an Add is a subsequence of the list after it, and the
   length never decreases. *)
C15_AddKeepsStoredEvents ==
    [][ kind = "graphical" =>
            /\ IsSubsequence(responses, responses')
            /\ Len(responses') >= Len(responses) ]_vars

\* Arrival order 1, 3, 2: the third Add went between the two stored events.
C15_Witness ==
    /\ kind = "graphical"
    /\ Timestamps(added) = <<1, 3, 2>>
    /\ Timestamps(responses) = <<1, 2, 3>>

(* C16: the aggregator that keeps only running aggregates, updated on each
   Add, is observably equivalent to the TextReporter, which retains every
   event and recomputes at Report time: after any sequence of Adds Report
   yields the values the running aggregates give. *)
C16_RunningAggregatesEquivalent ==
    TextReported =>
        /\ report.status = "returned"
        /\ report.values = RunningValues(running)

----------------------------------------------------------------------------
(* Vocabulary of the statement-level properties *)

\* A caller on a fast path has made a constant number of timestamp
\* comparisons: none for the empty list, one for the tail, two for the head.
FastPathConstant(c) ==
    /\ calls[c].pc = "line92" => calls[c].cmps = 0
    /\ calls[c].pc = "line97" => calls[c].cmps = 1
    /\ calls[c].pc = "line102" => calls[c].cmps = 2

\* The scan of a caller has visited stored elements only, none of them twice,
\* with one comparison each after the two of the fast-path tests.
ScanVisitsOnce(c) ==
    /\ PairwiseDistinct(calls[c].visited)
    /\ \A i \in 1..Len(calls[c].visited) : IndexOf(responses, calls[c].visited[i]) > 0
    /\ Len(calls[c].visited) <= Len(responses)
    /\ calls[c].cmps <= 2 + Len(calls[c].visited)

\* The event was passed to an Add call that has returned.
Returned(res) == \A c \in Callers : calls[c].arg.id # res.id

(* C17: every Add call on a GraphicalReporter terminates: on a fast path
   after a constant number of comparisons; in the scan after visiting each
   stored element at most once; and a call under way always returns. *)
C17_AddTerminates ==
    /\ [](\A c \in Callers : FastPathConstant(c) /\ ScanVisitsOnce(c))
    /\ \A c \in Callers : (calls[c].pc # "idle") ~> (calls[c].pc = "idle")

\* A serialised call whose scan has visited two stored elements and found
\* its place before the second.
C17_Witness ==
    /\ sync = "mutex"
    /\ \E c \in Callers :
           /\ calls[c].pc = "line109"
           /\ Len(calls[c].visited) = 2

(* C18: when the caller serialises the Add calls, no state is reachable from
   events with distinct timestamps in which the list is not sorted by
   timestamp or an event whose Add has returned is missing; without mutual
   exclusion such a state is reachable (C18_Witness). *)
C18_SerialisedCallsStaySorted ==
    (sync = "mutex" /\ PairwiseDistinct(Timestamps(added))) =>
        /\ NonDecreasing(Timestamps(responses))
        /\ \A i \in 1..Len(added) :
               Returned(added[i]) => IndexOf(responses, added[i].id) > 0

\* After Add(1) returned, Add(3) and Add(2) interleaved without mutual
\* exclusion: both compared with the tail 1 before either pushed back; both
\* have returned and the list is not sorted.
C18_Witness ==
    /\ sync = "none"
    /\ Timestamps(added) = <<1, 3, 2>>
    /\ \A c \in Callers : calls[c].pc = "idle"
    /\ Timestamps(responses) = <<1, 3, 2>>

====
